---- MODULE Spec2Model ----
(***************************************************************************)
(* Model of the text-redaction pipeline of image-anonymizer:               *)
(*   ocr/masking.rs  is_sensitive_text, mask_text, mask_annotation         *)
(*   ocr/gemini.rs   analyze_text_sensitivity                              *)
(*                                                                         *)
(* A text (Rust String) is a sequence of characters; a character is a      *)
(* one-token string whose UTF-8 width and Unicode classes are given by     *)
(* Utf8Len, is_alphanumeric and is_numeric.  An image is a record          *)
(* [width, height, pixels] with pixels a function from <<x, y>> to RGBA.   *)
(***************************************************************************)
EXTENDS Integers, Sequences, FiniteSets, TLC

(***************************************************************************)
(* Bounds of the model.                                                    *)
(***************************************************************************)
\* longest free prefix of a generated description
MaxBody == 1
\* most annotations in one pipeline run
MaxAnnotations == 3
\* largest image of the geometry runs
MaxW == 3
MaxH == 3
Repeats == 2
MaxDetected == 2

(***************************************************************************)
(* Constants of the program.                                               *)
(***************************************************************************)
\* masking.rs:67   text.len() < 3
ShortLen == 3
\* masking.rs:72   text.len() > 20
KeyLen == 20
\* masking.rs:100  count of numeric characters > 8
DigitLimit == 8
\* masking.rs:205  Rgba([0, 0, 0, 128])
MaskAlpha == 128

Range(s) == {s[i] : i \in DOMAIN s}
SeqsUpTo(S, n) == UNION {[1..k -> S] : k \in 0..n}
Rep(c, n) == [i \in 1..n |-> c]
MinOf(S) == CHOOSE m \in S : \A e \in S : m <= e
MaxOf(S) == CHOOSE m \in S : \A e \in S : m >= e
Min2(a, b) == IF a <= b THEN a ELSE b
Max2(a, b) == IF a >= b THEN a ELSE b

(***************************************************************************)
(* Characters.  "kanji" stands for a CJK ideograph (3 bytes in UTF-8,      *)
(* alphabetic), "nl" for a line feed; the others are the ASCII characters  *)
(* they name.                                                              *)
(***************************************************************************)
Letters == {"a", "e", "f", "l", "r", "s", "t", "u", "y",
            "A", "E", "F", "L", "R", "S", "T", "U", "kanji"}
Digits == {"7"}
Whitespace == {" ", "nl"}

\* str::len counts bytes of the UTF-8 encoding
Utf8Len(c) == IF c = "kanji" THEN 3 ELSE 1

RECURSIVE ByteLen(_)
ByteLen(s) == IF s = <<>> THEN 0 ELSE Utf8Len(Head(s)) + ByteLen(Tail(s))

\* str.chars().count()
CharLen(s) == Len(s)

\* char::is_alphanumeric, char::is_numeric
is_alphanumeric(c) == c \in Letters \cup Digits
is_numeric(c) == c \in Digits

Contains_NonEmpty(text, t) ==
    /\ t # <<>>
    /\ \E i \in 0..(Len(text) - Len(t)) : SubSeq(text, i + 1, i + Len(t)) = t

\* str::contains(pattern): pattern occurs as a contiguous run of text
\* (the empty pattern occurs in every text)
Contains(text, t) ==
    \E i \in 0..(Len(text) - Len(t)) : SubSeq(text, i + 1, i + Len(t)) = t

\* str::contains(char)
ContainsChar(text, c) == c \in Range(text)

\* text.chars().filter(|c| c.is_numeric()).count()
NumericCount(text) == Cardinality({i \in DOMAIN text : is_numeric(text[i])})

\* str::trim
RECURSIVE TrimStart(_)
TrimStart(s) ==
    IF s = <<>> THEN s
    ELSE IF Head(s) \in Whitespace THEN TrimStart(Tail(s)) ELSE s
RECURSIVE TrimEnd(_)
TrimEnd(s) ==
    IF s = <<>> THEN s
    ELSE IF s[Len(s)] \in Whitespace THEN TrimEnd(SubSeq(s, 1, Len(s) - 1)) ELSE s
trim(s) == TrimEnd(TrimStart(s))

\* str::split(','): the items between the commas, empty ones included; the
\* empty string yields one empty item
RECURSIVE split(_)
split(s) ==
    IF "," \notin Range(s) THEN <<s>>
    ELSE LET k == CHOOSE j \in DOMAIN s :
                      s[j] = "," /\ \A m \in 1..(j - 1) : s[m] # ","
         IN  <<SubSeq(s, 1, k - 1)>> \o split(SubSeq(s, k + 1, Len(s)))

\* str::to_lowercase
LowerChar(c) ==
    CASE c = "A" -> "a" [] c = "E" -> "e" [] c = "F" -> "f" [] c = "L" -> "l"
      [] c = "R" -> "r" [] c = "S" -> "s" [] c = "T" -> "t" [] c = "U" -> "u"
      [] OTHER -> c
to_lowercase(s) == [i \in DOMAIN s |-> LowerChar(s[i])]

StrTrue == <<"t", "r", "u", "e">>
StrFalse == <<"f", "a", "l", "s", "e">>

(***************************************************************************)
(* ocr/gemini.rs: analyze_text_sensitivity.                                *)
(* A reply is what the call meets on its way: the environment variable     *)
(* missing, the request failing, a non-success status, an unparsable body, *)
(* or a parsed body with its candidates (each a sequence of part texts).   *)
(***************************************************************************)
Reply(kind, candidates) == [kind |-> kind, candidates |-> candidates]

Ok(b) == [ok |-> TRUE, value |-> b]
Err == [ok |-> FALSE, value |-> FALSE]

\* gemini.rs:134-139
result_text(r) ==
    LET parts == r.candidates[1]
    IN  IF parts = <<>> THEN <<>> ELSE to_lowercase(trim(parts[1]))

analyze_text_sensitivity_strict(r) ==
    IF r.kind # "body" \/ r.candidates = <<>> THEN Err
    ELSE IF result_text(r) = StrTrue THEN Ok(TRUE)
    ELSE IF result_text(r) = StrFalse THEN Ok(FALSE)
    ELSE Err

analyze_text_sensitivity(r) ==
    IF r.kind = "no_key" THEN Err
    ELSE IF r.kind = "send_failed" THEN Err
    ELSE IF r.kind = "bad_status" THEN Err
    ELSE IF r.kind = "bad_json" THEN Err
    ELSE IF r.candidates = <<>> THEN Err
    ELSE IF result_text(r) = StrTrue THEN Ok(TRUE)
    ELSE IF result_text(r) = StrFalse THEN Ok(FALSE)
    ELSE Ok(TRUE)

\* gemini.rs:66: the context of the failed env::var; detection.rs:80 has the
\* same text
KeyMissing == <<"GCP_API_KEY", "environment", "variable", "not", "set">>

\* gemini.rs:66-132: the message of the error the call returns, word by word
analyze_error(r) ==
    IF r.kind = "no_key" THEN KeyMissing
    ELSE IF r.kind = "send_failed"
    THEN <<"Failed", "to", "send", "request", "to", "Google", "Gemini", "API">>
    ELSE IF r.kind = "bad_status"
    THEN <<"Gemini", "API", "request", "failed", "with", "status">>
    ELSE IF r.kind = "bad_json"
    THEN <<"Failed", "to", "parse", "Google", "Gemini", "API", "response">>
    ELSE IF r.kind = "body" /\ r.candidates = <<>>
    THEN <<"No", "candidates", "in", "Gemini", "API", "response">>
    ELSE <<>>

\* gemini.rs:66 and 103-111: the requests sent; none before the key is read
analyze_requests(r) == IF r.kind \in {"no_key", "none"} THEN 0 ELSE 1

(***************************************************************************)
(* ocr/detection.rs: detect_text_with_api.                                 *)
(***************************************************************************)
\* what the call meets: the variable GCP_API_KEY, the file at image_path,
\* and the answer of the Vision service
DetectEnv(key_set, file, vision) ==
    [key_set |-> key_set, file |-> file, vision |-> vision]
\* detection.rs:9-19: kind "body" is a reply that parses, responses the
\* text_annotations of each of its responses
VisionReply(kind, responses) == [kind |-> kind, responses |-> responses]

Detected(anns, effects) ==
    [ok |-> TRUE, annotations |-> anns, error |-> <<>>, effects |-> effects]
DetectFailed(msg, effects) ==
    [ok |-> FALSE, annotations |-> <<>>, error |-> msg, effects |-> effects]

detect_request_bail_on_no_text(env, effects) ==
    LET sent == Append(effects, "send_request")
    IN  IF env.vision.kind = "send_failed"
        THEN DetectFailed(<<"Failed", "to", "send", "request", "to", "Google",
                            "Cloud", "Vision", "API">>, sent)
        ELSE IF env.vision.kind = "no_text"
        THEN DetectFailed(<<"Failed", "to", "get", "response", "text">>, sent)
        ELSE IF env.vision.kind = "bad_json"
        THEN DetectFailed(<<"Failed", "to", "parse", "Google", "Cloud", "Vision",
                            "API", "response">>, sent)
        ELSE IF env.vision.responses = <<>> \/ env.vision.responses[1] = <<>>
        THEN DetectFailed(<<"No", "responses", "from", "Google", "Cloud",
                            "Vision", "API">>, sent)
        ELSE Detected(env.vision.responses[1], sent)

\* detection.rs:98-131: the request and what is made of its reply
detect_request(env, effects) ==
    LET sent == Append(effects, "send_request")
    IN  IF env.vision.kind = "send_failed"
        THEN DetectFailed(<<"Failed", "to", "send", "request", "to", "Google",
                            "Cloud", "Vision", "API">>, sent)
        ELSE IF env.vision.kind = "no_text"
        THEN DetectFailed(<<"Failed", "to", "get", "response", "text">>, sent)
        ELSE IF env.vision.kind = "bad_json"
        THEN DetectFailed(<<"Failed", "to", "parse", "Google", "Cloud", "Vision",
                            "API", "response">>, sent)
        ELSE IF env.vision.responses = <<>>
        THEN DetectFailed(<<"No", "responses", "from", "Google", "Cloud",
                            "Vision", "API">>, sent)
        ELSE Detected(env.vision.responses[1], sent)

detect_text_with_api_file_first(env) ==
    IF env.file = "missing"
    THEN DetectFailed(<<"Failed", "to", "read", "image", "file">>, <<"read_file">>)
    ELSE IF ~env.key_set THEN DetectFailed(KeyMissing, <<"read_file">>)
    ELSE detect_request(env, <<"read_file">>)

\* detection.rs:79-132
detect_text_with_api(env) ==
    IF ~env.key_set THEN DetectFailed(KeyMissing, <<>>)
    ELSE IF env.file = "missing"
    THEN DetectFailed(<<"Failed", "to", "read", "image", "file">>, <<"read_file">>)
    ELSE detect_request(env, <<"read_file">>)

(***************************************************************************)
(* ocr/masking.rs: is_sensitive_text.                                      *)
(***************************************************************************)
\* SensitiveTextCriteria::default(); only api_keys is ever read
DefaultCriteria ==
    [api_keys |-> TRUE, emails |-> TRUE, phone_numbers |-> TRUE,
     credit_cards |-> TRUE, personal_names |-> TRUE, company_names |-> TRUE]

KeyChar(c) == is_alphanumeric(c) \/ c = "_" \/ c = "." \/ c = "@"

\* masking.rs:62-79, the checks made before any request: "yes", "no", or
\* "ask" when the decision is left to analyze_text_sensitivity
LocalVerdict_LengthFirst(text, criteria, additional_texts) ==
    IF ByteLen(text) < ShortLen THEN "no"
    ELSE IF \E k \in DOMAIN additional_texts : Contains(text, additional_texts[k])
    THEN "yes"
    ELSE IF criteria.api_keys /\ ByteLen(text) > KeyLen
            /\ \A i \in DOMAIN text : KeyChar(text[i])
    THEN "yes"
    ELSE "ask"

LocalVerdict_LongerKey(text, criteria, additional_texts) ==
    IF \E k \in DOMAIN additional_texts : Contains(text, additional_texts[k])
    THEN "yes"
    ELSE IF ByteLen(text) < ShortLen THEN "no"
    ELSE IF criteria.api_keys /\ ByteLen(text) > KeyLen + 1
            /\ \A i \in DOMAIN text : KeyChar(text[i])
    THEN "yes"
    ELSE "ask"

LocalVerdict(text, criteria, additional_texts) ==
    IF \E k \in DOMAIN additional_texts : Contains(text, additional_texts[k])
    THEN "yes"
    ELSE IF ByteLen(text) < ShortLen THEN "no"
    ELSE IF criteria.api_keys /\ ByteLen(text) > KeyLen
            /\ \A i \in DOMAIN text : KeyChar(text[i])
    THEN "yes"
    ELSE "ask"

\* masking.rs:82-102, the match on the classifier's result
ApiVerdict_ErrIsFalse(text, res) ==
    IF res.ok THEN res.value ELSE FALSE

ApiVerdict(text, res) ==
    IF res.ok THEN res.value
    ELSE \/ ContainsChar(text, "@")
         \/ ContainsChar(text, "-")
         \/ NumericCount(text) > DigitLimit

\* masking.rs:56-103 as one function of the text and of the reply the
\* request would get
is_sensitive_text(text, criteria, additional_texts, r) ==
    LET local == LocalVerdict(text, criteria, additional_texts)
    IN  IF local = "ask" THEN ApiVerdict(text, analyze_text_sensitivity(r))
        ELSE local = "yes"

(***************************************************************************)
(* Images and annotations.                                                 *)
(***************************************************************************)
White == <<255, 255, 255, 255>>
\* masking.rs:205
Black == <<0, 0, 0, MaskAlpha>>

Coords(w, h) == (0..(w - 1)) \X (0..(h - 1))
\* the pixel at p of an all-white image, or of an image some of whose
\* pixels already have the mask colour
Paint(pattern, p) ==
    IF pattern = "mixed" /\ (p[1] + p[2]) % 2 = 1 THEN Black ELSE White
MakeImage(w, h, pattern) ==
    [width |-> w, height |-> h,
     pixels |-> [p \in Coords(w, h) |-> Paint(pattern, p)]]

\* detection.rs:29-40: Option<BoundingPoly>, BoundingPoly, Vertex
Vertex(x, y) == [x |-> x, y |-> y]
NoPoly == [present |-> FALSE, vertices |-> <<>>]
Poly(vs) == [present |-> TRUE, vertices |-> vs]
\* the four corners in the order the detector lists them
Box(x1, y1, x2, y2) ==
    Poly(<<Vertex(x1, y1), Vertex(x2, y1), Vertex(x2, y2), Vertex(x1, y2)>>)
\* detection.rs:21-27
TextAnnotation(d, bp) == [description |-> d, bounding_poly |-> bp]

(***************************************************************************)
(* ocr/masking.rs: mask_annotation.                                        *)
(***************************************************************************)
\* u32::saturating_sub
saturating_sub(a, b) == IF a >= b THEN a - b ELSE 0

\* masking.rs:191-192: v.min(size - 1) in u32.  On a buffer of size 0 a
\* release build wraps 0 - 1 to u32::MAX, which is above every value an i32
\* coordinate yields, so the minimum is v; a debug build has panicked before
\* (Underflows below).
ClampToLast(v, size) == IF size = 0 THEN v ELSE Min2(v, size - 1)

\* masking.rs:184-192: the rectangle derived from a non-empty vertex list
Rect(vertices, width, height) ==
    LET xs == {vertices[i].x : i \in DOMAIN vertices}
        ys == {vertices[i].y : i \in DOMAIN vertices}
    IN  [min_x |-> Max2(MinOf(xs), 0),
         min_y |-> Max2(MinOf(ys), 0),
         max_x |-> ClampToLast(Max2(MaxOf(xs), 0), width),
         max_y |-> ClampToLast(Max2(MaxOf(ys), 0), height)]

NoRect == [min_x |-> 0, min_y |-> 0, max_x |-> 0, max_y |-> 0]

Fill_Blend(img, r) ==
    [img EXCEPT !.pixels =
        [p \in DOMAIN img.pixels |->
            IF /\ r.min_x <= p[1] /\ p[1] <= r.max_x
               /\ r.min_y <= p[2] /\ p[2] <= r.max_y
            THEN <<img.pixels[p][1] \div 2, img.pixels[p][2] \div 2,
                   img.pixels[p][3] \div 2, img.pixels[p][4]>>
            ELSE img.pixels[p]]]

\* masking.rs:207-213
Fill(img, r) ==
    [img EXCEPT !.pixels =
        [p \in DOMAIN img.pixels |->
            IF /\ r.min_x <= p[1] /\ p[1] <= r.max_x
               /\ r.min_y <= p[2] /\ p[2] <= r.max_y
               /\ p[1] < img.width /\ p[2] < img.height
            THEN Black ELSE img.pixels[p]]]

FillExclusive(img, r) ==
    [img EXCEPT !.pixels =
        [p \in DOMAIN img.pixels |->
            IF /\ r.min_x <= p[1] /\ p[1] < r.max_x
               /\ r.min_y <= p[2] /\ p[2] < r.max_y
               /\ p[1] < img.width /\ p[2] < img.height
            THEN Black ELSE img.pixels[p]]]

\* masking.rs:171-182
VerticesOf(annotation) ==
    IF annotation.bounding_poly.present
    THEN annotation.bounding_poly.vertices ELSE <<>>

\* masking.rs:191-192: the subtraction size - 1 on a buffer of size 0
Underflows(img, annotation) ==
    VerticesOf(annotation) /= <<>> /\ (img.width = 0 \/ img.height = 0)

IsOversized_WidthOnly(img, r) ==
    saturating_sub(r.max_x, r.min_x) > img.width \div 2

\* masking.rs:194-197
IsOversized(img, r) ==
    LET box_width == saturating_sub(r.max_x, r.min_x)
        box_height == saturating_sub(r.max_y, r.min_y)
    IN  box_width > img.width \div 2 \/ box_height > img.height \div 2

mask_annotation_unwrap(img, annotation) ==
    IF VerticesOf(annotation) = <<>>
    THEN [image |-> Fill(img, NoRect), rect |-> NoRect, outcome |-> "filled"]
    ELSE LET r == Rect(VerticesOf(annotation), img.width, img.height)
         IN  IF IsOversized(img, r)
             THEN [image |-> img, rect |-> r, outcome |-> "oversized"]
             ELSE [image |-> Fill(img, r), rect |-> r, outcome |-> "filled"]

mask_annotation_exclusive(img, annotation) ==
    IF VerticesOf(annotation) = <<>>
    THEN [image |-> img, rect |-> NoRect, outcome |-> "empty"]
    ELSE LET r == Rect(VerticesOf(annotation), img.width, img.height)
         IN  IF IsOversized(img, r)
             THEN [image |-> img, rect |-> r, outcome |-> "oversized"]
             ELSE [image |-> FillExclusive(img, r), rect |-> r, outcome |-> "filled"]

\* masking.rs:171-216; the result is always Ok(()), so only the buffer, the
\* rectangle and the branch taken are returned
mask_annotation(img, annotation) ==
    IF VerticesOf(annotation) = <<>>
    THEN [image |-> img, rect |-> NoRect, outcome |-> "empty"]
    ELSE LET r == Rect(VerticesOf(annotation), img.width, img.height)
         IN  IF IsOversized(img, r)
             THEN [image |-> img, rect |-> r, outcome |-> "oversized"]
             ELSE [image |-> Fill(img, r), rect |-> r, outcome |-> "filled"]

(***************************************************************************)
(* face/masking.rs: mask_faces.                                            *)
(***************************************************************************)
\* face/masking.rs:24
pixel_size == 16

\* face/detection.rs:21-31; mask_faces reads the bounding polygon only
FaceAnnotation(bp) == [bounding_poly |-> bp]

\* face/masking.rs:53-54
BlockCount(extent) == Max2(extent \div pixel_size, 1)

\* face/masking.rs:60-63: the bounds of block (block_x, block_y)
BlockBounds(r, block_x, block_y) ==
    LET block_start_x == r.min_x + block_x * pixel_size
        block_start_y == r.min_y + block_y * pixel_size
    IN  [start_x |-> block_start_x,
         start_y |-> block_start_y,
         end_x |-> Min2(block_start_x + pixel_size, r.max_x),
         end_y |-> Min2(block_start_y + pixel_size, r.max_y)]

\* face/masking.rs:72-74 and 94-96: the pixels the two loops visit; both
\* ranges leave their end out
BlockCells(img, b) ==
    {p \in DOMAIN img.pixels :
        /\ b.start_x <= p[1] /\ p[1] < b.end_x
        /\ b.start_y <= p[2] /\ p[2] < b.end_y}

\* face/masking.rs:73-82: one row of the block, channel c
RECURSIVE RowSum(_, _, _, _, _)
RowSum(img, y, x, end_x, c) ==
    IF x >= end_x THEN 0
    ELSE (IF x < img.width /\ y < img.height THEN img.pixels[<<x, y>>][c] ELSE 0)
         + RowSum(img, y, x + 1, end_x, c)

\* face/masking.rs:66-83: the sum of channel c over the block
RECURSIVE ChannelSum(_, _, _, _)
ChannelSum(img, b, y, c) ==
    IF y >= b.end_y THEN 0
    ELSE RowSum(img, y, b.start_x, b.end_x, c) + ChannelSum(img, b, y + 1, c)

\* face/masking.rs:86-91: the quotients are at most 255, the casts are exact
AveragePixel(img, b) ==
    LET pixel_count == Cardinality(BlockCells(img, b))
    IN  [c \in 1..4 |-> ChannelSum(img, b, b.start_y, c) \div pixel_count]

\* face/masking.rs:59-101: one block, read and written in place
MosaicBlock(img, r, block_x, block_y) ==
    LET b == BlockBounds(r, block_x, block_y)
        cells == BlockCells(img, b)
    IN  IF cells = {} THEN img
        ELSE LET avg_pixel == AveragePixel(img, b)
             IN  [img EXCEPT !.pixels =
                     [p \in DOMAIN img.pixels |->
                         IF p \in cells THEN avg_pixel ELSE img.pixels[p]]]

\* face/masking.rs:57-58: the blocks in the order of the two loops, block k
\* being (k % blocks_x, k \div blocks_x)
RECURSIVE MosaicFrom(_, _, _)
MosaicFrom(img, r, k) ==
    LET blocks_x == BlockCount(r.max_x - r.min_x)
        blocks_y == BlockCount(r.max_y - r.min_y)
    IN  IF k >= blocks_x * blocks_y THEN img
        ELSE MosaicFrom(MosaicBlock(img, r, k % blocks_x, k \div blocks_x),
                        r, k + 1)

\* face/masking.rs:49-54: width - 1, height - 1, max_x - min_x, max_y - min_y
FaceUnderflows(img, annotation) ==
    /\ VerticesOf(annotation) /= <<>>
    /\ LET r == Rect(VerticesOf(annotation), img.width, img.height)
       IN  \/ img.width = 0 \/ img.height = 0
           \/ r.min_x > r.max_x \/ r.min_y > r.max_y

\* face/masking.rs:32-104: one iteration of the loop over the faces.  Where
\* a subtraction underflows, a release build goes on with a wrapped extent:
\* the block starts min + k * pixel_size then either stay above max or, once
\* they wrap, land at max - pixel_size or below, which is negative on an
\* image of at most pixel_size pixels a side, so every block is empty.
mask_face(img, annotation) ==
    IF VerticesOf(annotation) = <<>>
    THEN [image |-> img, rect |-> NoRect, outcome |-> "empty"]
    ELSE LET r == Rect(VerticesOf(annotation), img.width, img.height)
         IN  IF FaceUnderflows(img, annotation)
             THEN [image |-> img, rect |-> r, outcome |-> "wrapped"]
             ELSE [image |-> MosaicFrom(img, r, 0), rect |-> r,
                   outcome |-> "mosaic"]

(***************************************************************************)
(* State of one run of mask_text.                                          *)
(***************************************************************************)
VARIABLES
    image,                  \* the buffer mask_text writes to
    original,               \* the buffer as the caller passed it
    annotations,            \* argument: the detector's annotations
    additional_masks,       \* argument: the explicit terms
    pc,                     \* "start", "classify", "render", "done"
    criteria,               \* masking.rs:125
    annotations_to_process, \* masking.rs:131, as indices into annotations
    task,                   \* per annotation: "todo", "calling", "done"
    verdict,                \* per annotation: what is_sensitive_text returned
    api_calls,              \* per annotation: calls of analyze_text_sensitivity
    last_call,              \* the latest reply analyze_text_sensitivity met
    finished,               \* indices in the order the workers finished
    sensitive_annotations,  \* masking.rs:138, as indices
    masked_count,           \* masking.rs:145
    render_log,             \* one record per call of mask_annotation
    result,                 \* "none" while running, then the returned value
    build,                  \* "debug" or "release": what u32 overflow does
    process                 \* the run of process_image around mask_text

vars == <<image, original, annotations, additional_masks, pc, criteria,
          annotations_to_process, task, verdict, api_calls, last_call,
          finished, sensitive_annotations, masked_count, render_log, result,
          build, process>>

\* mask_text called on its own, as the tests call it
\* lib.rs:27: the argument mask_texts: Option<&str>
NoMaskTexts == [present |-> FALSE, text |-> <<>>]
SomeMaskTexts(t) == [present |-> TRUE, text |-> t]

\* lib.rs:46-53
ParseMasks(mask_texts) ==
    IF mask_texts.present
    THEN LET items == split(mask_texts.text)
         IN  [k \in DOMAIN items |-> trim(items[k])]
    ELSE <<>>

NoProcess ==
    [entry |-> "none", mask_texts |-> NoMaskTexts,
     env |-> DetectEnv(TRUE, "image", VisionReply("none", <<>>)),
     detected |-> DetectFailed(<<>>, <<>>), called |-> FALSE,
     outcome |-> "none", error |-> <<>>, saved |-> FALSE]

NoCall == [ann |-> 0, reply |-> Reply("none", <<>>), error |-> <<>>, requests |-> 0]

\* masking.rs:131-135: skip the first annotation when there are several
ToProcess_Always(n) == [j \in 1..n |-> j]

ToProcess(n) ==
    IF n > 1 THEN [j \in 1..(n - 1) |-> j + 1] ELSE [j \in 1..n |-> j]

\* the join of the parallel filter: every item has been through the predicate
AllClassified(t, todo) == \A j \in DOMAIN todo : t[todo[j]] = "done"

\* rayon's collect() of a filtered par_iter keeps the order of the slice,
\* whatever the order of completion
RECURSIVE SelectIdx(_, _)
SelectIdx(todo, v) ==
    IF todo = <<>> THEN <<>>
    ELSE IF v[Head(todo)] THEN <<Head(todo)>> \o SelectIdx(Tail(todo), v)
    ELSE SelectIdx(Tail(todo), v)

Collected_ByCompletion(todo, v, fin) == SelectIdx(fin, v)

Collected(todo, v, fin) == SelectIdx(todo, v)

\* a call entered at entry, in a build b, with proc around it
InitCall(entry, b, img, anns, masks, proc) ==
    /\ image = img
    /\ original = img
    /\ annotations = anns
    /\ additional_masks = masks
    /\ pc = entry
    /\ criteria = DefaultCriteria
    /\ annotations_to_process = <<>>
    /\ task = [i \in DOMAIN anns |-> "todo"]
    /\ verdict = [i \in DOMAIN anns |-> FALSE]
    /\ api_calls = [i \in DOMAIN anns |-> 0]
    /\ last_call = NoCall
    /\ finished = <<>>
    /\ sensitive_annotations = <<>>
    /\ masked_count = 0
    /\ render_log = <<>>
    /\ result = "none"
    /\ build = b
    /\ process = proc

\* a call of mask_text (entry "start") or mask_faces (entry "faces") on its own
InitRun(entry, b, img, anns, masks) ==
    InitCall(entry, b, img, anns, masks, NoProcess)

\* mask_text on a buffer of at least 1x1, where none of its arithmetic
\* overflows and the build makes no difference
InitWith(img, anns, masks) == InitRun("start", "release", img, anns, masks)

(***************************************************************************)
(* mask_text, masking.rs:120-155.                                          *)
(***************************************************************************)
\* masking.rs:125-135
Begin ==
    /\ pc = "start"
    /\ criteria' = DefaultCriteria
    /\ annotations_to_process' = ToProcess(Len(annotations))
    /\ pc' = "classify"
    /\ UNCHANGED <<image, original, build, process, annotations, additional_masks, task, verdict,
                   api_calls, last_call, finished, sensitive_annotations,
                   masked_count, render_log, result>>

\* masking.rs:140-141 with 62-82: a worker takes annotation i and runs
\* is_sensitive_text up to its return or up to the blocking request
Classify(i) ==
    /\ pc = "classify"
    /\ i \in Range(annotations_to_process)
    /\ task[i] = "todo"
    /\ LET local == LocalVerdict(annotations[i].description, criteria,
                                 additional_masks)
       IN  IF local = "ask"
           THEN /\ task' = [task EXCEPT ![i] = "calling"]
                /\ api_calls' = [api_calls EXCEPT ![i] = @ + 1]
                /\ UNCHANGED <<verdict, finished>>
           ELSE /\ task' = [task EXCEPT ![i] = "done"]
                /\ verdict' = [verdict EXCEPT ![i] = (local = "yes")]
                /\ finished' = Append(finished, i)
                /\ UNCHANGED api_calls
    /\ UNCHANGED <<image, original, build, process, annotations, additional_masks, pc, criteria,
                   annotations_to_process, last_call, sensitive_annotations,
                   masked_count, render_log, result>>

\* gemini.rs:65-157 and masking.rs:82-102: the request of annotation i ends
\* with reply r and is_sensitive_text returns
ApiReturn(i, r) ==
    /\ pc = "classify"
    \* inside process_image the variable was set when detection read it
    /\ process.entry = "process_image" => r.kind # "no_key"
    /\ i \in DOMAIN task
    /\ task[i] = "calling"
    /\ task' = [task EXCEPT ![i] = "done"]
    /\ verdict' = [verdict EXCEPT
                     ![i] = is_sensitive_text(annotations[i].description,
                                              criteria, additional_masks, r)]
    /\ last_call' = [ann |-> i, reply |-> r, error |-> analyze_error(r),
                     requests |-> analyze_requests(r)]
    /\ finished' = Append(finished, i)
    /\ UNCHANGED <<image, original, build, process, annotations, additional_masks, pc, criteria,
                   annotations_to_process, api_calls, sensitive_annotations,
                   masked_count, render_log, result>>

\* masking.rs:143-145
Collect ==
    /\ pc = "classify"
    /\ AllClassified(task, annotations_to_process)
    /\ sensitive_annotations' = Collected(annotations_to_process, verdict, finished)
    /\ masked_count' = Len(sensitive_annotations')
    /\ pc' = "render"
    /\ UNCHANGED <<image, original, build, process, annotations, additional_masks, criteria,
                   annotations_to_process, task, verdict, api_calls, last_call,
                   finished, render_log, result>>

\* masking.rs:149-151: one iteration of the loop, a whole mask_annotation.
\* Where width - 1 or height - 1 underflows, a debug build panics and a
\* release build goes on with the wrapped value.
Render ==
    /\ pc = "render"
    /\ Len(render_log) < Len(sensitive_annotations)
    /\ LET i == sensitive_annotations[Len(render_log) + 1]
           out == mask_annotation(image, annotations[i])
       IN  IF Underflows(image, annotations[i]) /\ build = "debug"
           THEN /\ result' = "panic"
                /\ pc' = "done"
                /\ UNCHANGED <<image, render_log>>
           ELSE /\ image' = out.image
                /\ render_log' = Append(render_log,
                       [ann |-> i, rect |-> out.rect, outcome |-> out.outcome])
                /\ UNCHANGED <<pc, result>>
    /\ UNCHANGED <<original, build, process, annotations, additional_masks,
                   criteria, annotations_to_process, task, verdict, api_calls,
                   last_call, finished, sensitive_annotations, masked_count>>

Returned_ErrOnNone(count) == IF count = 0 THEN "Err" ELSE "Ok"

\* masking.rs:153-154: the count is logged and Ok(()) returned, whatever
\* the count
Returned(count) == "Ok"

\* masking.rs:153-154
Finish ==
    /\ pc = "render"
    /\ Len(render_log) = Len(sensitive_annotations)
    /\ result' = Returned(masked_count)
    /\ pc' = "done"
    /\ UNCHANGED <<image, original, build, process, annotations, additional_masks, criteria,
                   annotations_to_process, task, verdict, api_calls, last_call,
                   finished, sensitive_annotations, masked_count, render_log>>

(***************************************************************************)
(* mask_faces, face/masking.rs:22-109.                                     *)
(***************************************************************************)
\* face/masking.rs:24-29: the number of faces is reported on entry
FacesBegin ==
    /\ pc = "faces"
    /\ masked_count' = Len(annotations)
    /\ pc' = "mosaic"
    /\ UNCHANGED <<image, original, build, process, annotations,
                   additional_masks, criteria, annotations_to_process, task,
                   verdict, api_calls, last_call, finished,
                   sensitive_annotations, render_log, result>>

\* face/masking.rs:31-105: one iteration of the loop; a debug build panics
\* at the first subtraction that underflows
MaskFace ==
    /\ pc = "mosaic"
    /\ Len(render_log) < Len(annotations)
    /\ LET i == Len(render_log) + 1
           out == mask_face(image, annotations[i])
       IN  IF FaceUnderflows(image, annotations[i]) /\ build = "debug"
           THEN /\ result' = "panic"
                /\ pc' = "done"
                /\ UNCHANGED <<image, render_log>>
           ELSE /\ image' = out.image
                /\ render_log' = Append(render_log,
                       [ann |-> i, rect |-> out.rect, outcome |-> out.outcome])
                /\ UNCHANGED <<pc, result>>
    /\ UNCHANGED <<original, build, process, annotations, additional_masks,
                   criteria, annotations_to_process, task, verdict, api_calls,
                   last_call, finished, sensitive_annotations, masked_count>>

\* face/masking.rs:107-108
FacesFinish ==
    /\ pc = "mosaic"
    /\ Len(render_log) = Len(annotations)
    /\ result' = "Ok"
    /\ pc' = "done"
    /\ UNCHANGED <<image, original, build, process, annotations,
                   additional_masks, criteria, annotations_to_process, task,
                   verdict, api_calls, last_call, finished,
                   sensitive_annotations, masked_count, render_log>>

NextFaces == FacesBegin \/ MaskFace \/ FacesFinish

(***************************************************************************)
(* process_image, lib.rs:27-70, and a call of detect_text_with_api alone.  *)
(* The output directory exists and the file name is valid (lib.rs:32-44).  *)
(***************************************************************************)
ProcessFailed(proc, context) ==
    [proc EXCEPT !.outcome = "Err", !.error = context]

\* lib.rs:30-53: the image is opened and the explicit terms are parsed
Open ==
    /\ pc = "open"
    /\ IF process.env.file = "missing"
       THEN /\ process' = ProcessFailed(process,
                               << <<"Failed", "to", "open", "input", "image">> >>)
            /\ pc' = "end"
            /\ UNCHANGED additional_masks
       ELSE /\ additional_masks' = ParseMasks(process.mask_texts)
            /\ pc' = "detect"
            /\ UNCHANGED process
    /\ UNCHANGED <<image, original, build, annotations,
                   criteria, annotations_to_process, task, verdict, api_calls,
                   last_call, finished, sensitive_annotations, masked_count,
                   render_log, result>>

\* lib.rs:55-63 with detection.rs:79-132: the whole call of
\* detect_text_with_api and the branch on its result.  The error of
\* process_image is the chain of its context and the cause.
Detect ==
    /\ pc = "detect"
    /\ LET out == detect_text_with_api(process.env)
           seen == [process EXCEPT !.detected = out, !.called = TRUE]
       IN  IF ~out.ok
           THEN /\ process' =
                       ProcessFailed(seen,
                           IF process.entry = "process_image"
                           THEN <<<<"Failed", "to", "detect", "text", "in", "image">>,
                                  out.error>>
                           ELSE <<out.error>>)
                /\ pc' = "end"
                /\ UNCHANGED <<annotations, task, verdict, api_calls>>
           ELSE /\ annotations' = out.annotations
                /\ task' = [i \in DOMAIN out.annotations |-> "todo"]
                /\ verdict' = [i \in DOMAIN out.annotations |-> FALSE]
                /\ api_calls' = [i \in DOMAIN out.annotations |-> 0]
                /\ IF process.entry = "detect_text_with_api"
                   THEN /\ process' = [seen EXCEPT !.outcome = "Ok"]
                        /\ pc' = "end"
                   ELSE /\ process' = seen
                        /\ pc' = IF out.annotations = <<>> THEN "save" ELSE "start"
    /\ UNCHANGED <<image, original, build, additional_masks, criteria,
                   annotations_to_process, last_call, finished,
                   sensitive_annotations, masked_count, render_log, result>>

\* lib.rs:65-69, reached past the branch of 57-63 or after mask_text
\* returned Ok; the encoder may fail
Save ==
    /\ \/ pc = "save"
       \/ pc = "done" /\ process.entry = "process_image" /\ result = "Ok"
    /\ \E written \in BOOLEAN :
           process' =
               IF written
               THEN [process EXCEPT !.outcome = "Ok", !.saved = TRUE]
               ELSE ProcessFailed(process,
                        << <<"Failed", "to", "save", "output", "image">> >>)
    /\ pc' = "end"
    /\ UNCHANGED <<image, original, build, annotations, additional_masks,
                   criteria, annotations_to_process, task, verdict, api_calls,
                   last_call, finished, sensitive_annotations, masked_count,
                   render_log, result>>

(***************************************************************************)
(* The replies of the classifier service.                                  *)
(***************************************************************************)
Answers ==
    {StrTrue, <<" ", "T", "r", "u", "e", "nl">>,
     StrFalse, <<"F", "A", "L", "S", "E", " ">>,
     <<"y", "e", "s">>, <<"t", "r", "u", "e", ".">>, <<>>}

Replies ==
    {Reply(k, <<>>) : k \in {"no_key", "send_failed", "bad_status", "bad_json", "body"}}
    \cup {Reply("body", << <<>> >>)}
    \cup {Reply("body", << <<a>> >>) : a \in Answers}
    \cup {Reply("body", << <<StrFalse, StrTrue>>, <<StrTrue>> >>)}

Next ==
    \/ Begin
    \/ \E i \in DOMAIN annotations : Classify(i)
    \/ \E i \in DOMAIN annotations, r \in Replies : ApiReturn(i, r)
    \/ Collect
    \/ Render
    \/ Finish

(***************************************************************************)
(* Inputs.                                                                 *)
(***************************************************************************)
TermDigits == <<"7", "7">>
TermAt == <<"@">>

\* Classification runs: one annotation, descriptions of every length class
Alphabet == {"a", "7", "@", "-", "_", ".", " ", "kanji"}
PadLens == {0, ShortLen - 1, DigitLimit, KeyLen}
Descriptions ==
    {b \o Rep(c, n) : b \in SeqsUpTo(Alphabet, MaxBody), c \in {"a", "7"},
                      n \in PadLens}
TermLists ==
    {<<>>, <<TermDigits>>, <<TermAt>>, <<TermAt, TermDigits>>, << <<>> >>}

InitClassify ==
    \E d \in Descriptions, masks \in TermLists :
        InitWith(MakeImage(2, 2, "white"),
                 <<TextAnnotation(d, Box(0, 0, 1, 0))>>, masks)

\* Geometry runs: one annotation, boxes in and around images of every size
XCoords == (0 - 2)..(MaxW + 1)
YCoords == (0 - 1)..MaxH
Boxes ==
    {Box(x1, y1, x2, y2) : x1 \in XCoords, x2 \in XCoords,
                           y1 \in YCoords, y2 \in YCoords}
Polys == {p \in Boxes : p.vertices[1].x <= p.vertices[3].x
                        /\ p.vertices[1].y <= p.vertices[3].y}
         \cup {NoPoly, Poly(<<>>)}
Images ==
    {MakeImage(w, h, pattern) :
        w \in 1..MaxW, h \in 1..MaxH, pattern \in {"white", "mixed"}}

InitGeometry ==
    \E img \in Images, p \in Polys, d \in {<<"a", "@", "a">>, <<"a", "a", "a">>} :
        InitWith(img, <<TextAnnotation(d, p)>>, <<TermAt>>)

\* Pipeline runs: up to MaxAnnotations annotations on a 4x3 image
PipeAnnotations ==
    {TextAnnotation(d, p) :
        d \in {<<"a", "@", "a">>, <<"a", "a", "a">>, <<"a">>},
        p \in {Box(0, 0, 1, 0), Box(1, 1, 2, 2)}}

Init ==
    \E anns \in SeqsUpTo(PipeAnnotations, MaxAnnotations) :
        InitWith(MakeImage(4, 3, "white"), anns, <<TermAt>>)

\* Face runs: the same face up to Repeats times, the two forms of a missing
\* polygon side by side, and rectangles of one and of several blocks
Builds == {"debug", "release"}
Copies(a, n) == [i \in 1..n |-> a]
BlockImages ==
    {MakeImage(2 * pixel_size + 2, 2, "mixed"),
     MakeImage(pixel_size + 1, pixel_size + 1, "mixed")}
BlockPolys(img) ==
    {Box(0, 0, img.width - 1, img.height - 1),
     Box(0, 0, img.width - 2, img.height - 1),
     Box(1, 0, img.width - 1, 1),
     Box(0, 0, pixel_size, 1)}

FaceRuns(imgs) ==
    \/ \E b \in Builds, img \in imgs, p \in Polys, n \in 0..Repeats :
           InitRun("faces", b, img, Copies(FaceAnnotation(p), n), <<>>)
    \/ \E b \in Builds, img \in imgs :
           InitRun("faces", b, img,
                   <<FaceAnnotation(NoPoly), FaceAnnotation(Poly(<<>>))>>, <<>>)
    \/ \E b \in Builds, img \in BlockImages, n \in 1..Repeats :
           \E p \in BlockPolys(img) :
               InitRun("faces", b, img, Copies(FaceAnnotation(p), n), <<>>)

InitFaces == FaceRuns(Images)

\* Text runs for the renderer taken twice: the same sensitive annotation
\* Repeats times after the skipped first one, no annotation at all under
\* every list of terms, and a lone annotation that needs the classifier
MixedImages == {img \in Images : img = MakeImage(img.width, img.height, "mixed")}
\* the polygons around the near corner of the image
NearPolys ==
    {p \in Polys : \A k \in DOMAIN p.vertices :
                       /\ p.vertices[k].x \in (0 - 1)..1
                       /\ p.vertices[k].y \in (0 - 1)..1}
InitRepeat ==
    \/ \E img \in MixedImages, p \in NearPolys :
           InitWith(img, Copies(TextAnnotation(<<"a", "@", "a">>, p), Repeats + 1),
                    <<TermAt>>)
    \/ \E img \in Images, masks \in TermLists :
           InitWith(img, <<>>, masks)
    \/ \E p \in Polys :
           InitWith(MakeImage(MaxW, MaxH, "mixed"),
                    <<TextAnnotation(<<"a", "a", "a">>, p)>>, <<TermAt>>)

InitBoth == FaceRuns(MixedImages) \/ InitRepeat
NextBoth == Next \/ NextFaces

\* Runs of mask_text on buffers of every size from 0x0, in both builds
EdgeCoords == (0 - 1)..1
EdgePolys ==
    {Box(x1, y1, x2, y2) : x1 \in EdgeCoords, x2 \in EdgeCoords,
                           y1 \in EdgeCoords, y2 \in EdgeCoords}
    \cup {NoPoly, Poly(<<>>)}
EdgeImages == {MakeImage(w, h, "white") : w \in 0..MaxW, h \in 0..MaxH}

InitZeroSize ==
    \E b \in Builds, img \in EdgeImages, p \in EdgePolys,
       d \in {<<"a", "@", "a">>, <<"a", "a", "a">>} :
        InitRun("start", b, img, <<TextAnnotation(d, p)>>, <<TermAt>>)

\* Runs of process_image and of detect_text_with_api alone under every
\* environment, and of mask_text alone on a text that needs the classifier
DetectedAnnotations ==
    {TextAnnotation(<<"a", "@", "a">>, Box(0, 0, 1, 0)),
     TextAnnotation(<<"a", "a", "a">>, Box(1, 1, 2, 2)),
     TextAnnotation(<<"a">>, Box(2, 0, 3, 0))}
DetectedLists == SeqsUpTo(DetectedAnnotations, MaxDetected)
VisionReplies ==
    {VisionReply(k, <<>>) : k \in {"send_failed", "no_text", "bad_json", "body"}}
    \cup {VisionReply("body", <<anns>>) : anns \in DetectedLists}
    \cup {VisionReply("body", <<<<>>, anns>>) : anns \in DetectedLists}
ProcessEnvs ==
    {DetectEnv(k, f, v) :
        k \in BOOLEAN, f \in {"missing", "image"}, v \in VisionReplies}

\* the argument mask_texts: absent, empty, one term, and lists with a
\* trailing comma, a doubled comma, a blank item, a padded term
MaskTextArgs ==
    {NoMaskTexts}
    \cup {SomeMaskTexts(t) :
            t \in {<<>>, <<"@">>, <<"@", ",">>, <<"@", ",", ",", "7">>,
                   <<"@", ",", " ", ",", "7">>, <<" ", "@", " ", ",", "7">>}}

InitProcess ==
    \/ \E env \in ProcessEnvs, mt \in MaskTextArgs :
           InitCall("open", "release", MakeImage(4, 3, "white"), <<>>, <<>>,
                    [NoProcess EXCEPT !.entry = "process_image", !.env = env,
                                      !.mask_texts = mt])
    \/ \E d \in Descriptions :
           InitWith(MakeImage(4, 3, "white"),
                    <<TextAnnotation(d, Box(0, 0, 1, 0))>>, << <<>> >>)
    \/ \E env \in ProcessEnvs :
           InitCall("detect", "release", MakeImage(4, 3, "white"), <<>>, <<>>,
                    [NoProcess EXCEPT !.entry = "detect_text_with_api",
                                      !.env = env])
    \/ \E a \in DetectedAnnotations :
           InitWith(MakeImage(4, 3, "white"), <<a>>, <<TermAt>>)

NextProcess == Open \/ Detect \/ Save \/ Next

Spec == Init /\ [][Next]_vars
SpecProcess == InitProcess /\ [][NextProcess]_vars
SpecZeroSize == InitZeroSize /\ [][Next]_vars
SpecFaces == InitFaces /\ [][NextFaces]_vars
SpecBoth == InitBoth /\ [][NextBoth]_vars
SpecClassify == InitClassify /\ [][Next]_vars
SpecGeometry == InitGeometry /\ [][Next]_vars

(***************************************************************************)
(* Vocabulary of the properties.                                           *)
(***************************************************************************)
Desc(i) == annotations[i].description
ExplicitMatch(text) ==
    \E k \in DOMAIN additional_masks : Contains(text, additional_masks[k])
KeyShaped(text) ==
    \A j \in DOMAIN text :
        is_alphanumeric(text[j]) \/ text[j] \in {"_", ".", "@"}
\* the fallback policy as the specification words it
Fallback(text) ==
    \/ "@" \in Range(text)
    \/ "-" \in Range(text)
    \/ Cardinality({j \in DOMAIN text : is_numeric(text[j])}) > 8
\* the call returned an error: transport, status, parse, or no candidate
CallFailed(r) ==
    \/ r.kind \in {"no_key", "send_failed", "bad_status", "bad_json"}
    \/ r.kind = "body" /\ r.candidates = <<>>
\* the call succeeded with an answer that is neither "true" nor "false"
Ambiguous(r) ==
    /\ r.kind = "body"
    /\ r.candidates # <<>>
    /\ LET parts == r.candidates[1]
           answer == IF parts = <<>> THEN <<>> ELSE to_lowercase(trim(parts[1]))
       IN  answer # StrTrue /\ answer # StrFalse
Called(i) == last_call.ann = i

\* C1: an annotation whose text contains an explicit term is classified
\* sensitive as soon as a worker takes it, without any call of the classifier,
\* whatever its length and characters.
C1_ExplicitMatchDominates ==
    \A i \in DOMAIN annotations :
        (task[i] # "todo" /\ ExplicitMatch(Desc(i)))
            => (task[i] = "done" /\ verdict[i] /\ api_calls[i] = 0)

\* C1 witness: a text shorter than 3 characters that contains a non-empty
\* explicit term has been classified sensitive.
C1_Witness ==
    \E i \in DOMAIN annotations :
        /\ task[i] = "done" /\ verdict[i]
        /\ CharLen(Desc(i)) < 3
        /\ \E k \in DOMAIN additional_masks :
               additional_masks[k] # <<>> /\ Contains(Desc(i), additional_masks[k])

\* C2: a text of fewer than 3 characters that contains no explicit term is
\* classified not sensitive and the classifier is never called for it.
C2_ShortTextNotSensitive ==
    \A i \in DOMAIN annotations :
        (task[i] # "todo" /\ CharLen(Desc(i)) < 3 /\ ~ExplicitMatch(Desc(i)))
            => (task[i] = "done" /\ ~verdict[i] /\ api_calls[i] = 0)

\* C3: with api_keys enabled, a text of more than 20 characters, all of them
\* alphanumeric or '_', '.', '@', that contains no explicit term is classified
\* sensitive without any call of the classifier.
C3_KeyShapedSensitive ==
    \A i \in DOMAIN annotations :
        (/\ task[i] # "todo"
         /\ criteria.api_keys
         /\ CharLen(Desc(i)) > 20
         /\ KeyShaped(Desc(i))
         /\ ~ExplicitMatch(Desc(i)))
            => (task[i] = "done" /\ verdict[i] /\ api_calls[i] = 0)

\* C3 witness: such a text, of exactly 21 characters, has been classified.
C3_Witness ==
    \E i \in DOMAIN annotations :
        /\ task[i] = "done" /\ verdict[i] /\ criteria.api_keys
        /\ CharLen(Desc(i)) = 21 /\ KeyShaped(Desc(i))
        /\ ~ExplicitMatch(Desc(i))

C5_AmbiguousIsSensitive ==
    \A i \in DOMAIN annotations :
        (Called(i) /\ Ambiguous(last_call.reply))
            => /\ analyze_text_sensitivity(last_call.reply) = [ok |-> TRUE, value |-> TRUE]
               /\ task[i] = "done"
               /\ verdict[i]

\* C5 witness: an ambiguous answer for a text the fallback policy would call
\* not sensitive; the annotation is classified sensitive.
C5_Witness ==
    \E i \in DOMAIN annotations :
        /\ Called(i) /\ Ambiguous(last_call.reply)
        /\ last_call.reply.candidates[1] # <<>>
        /\ ~Fallback(Desc(i))
        /\ task[i] = "done" /\ verdict[i]

Processed == Range(annotations_to_process)
RenderedAnns == {render_log[k].ann : k \in DOMAIN render_log}
Classifying == pc = "classify"
Vertices(i) == annotations[i].bounding_poly.vertices
HasRegion(i) == annotations[i].bounding_poly.present /\ Vertices(i) # <<>>
PolyMinX(i) == MinOf({Vertices(i)[k].x : k \in DOMAIN Vertices(i)})
PolyMaxX(i) == MaxOf({Vertices(i)[k].x : k \in DOMAIN Vertices(i)})
PolyMinY(i) == MinOf({Vertices(i)[k].y : k \in DOMAIN Vertices(i)})
PolyMaxY(i) == MaxOf({Vertices(i)[k].y : k \in DOMAIN Vertices(i)})
\* the polygon of annotation i lies inside the image
InsideImage(i) ==
    /\ 0 <= PolyMinX(i) /\ PolyMaxX(i) <= image.width - 1
    /\ 0 <= PolyMinY(i) /\ PolyMaxY(i) <= image.height - 1
\* its rectangle is wider or taller than half the image
Oversized(i) ==
    \/ PolyMaxX(i) - PolyMinX(i) > image.width \div 2
    \/ PolyMaxY(i) - PolyMinY(i) > image.height \div 2
InPolyBox(p, i) ==
    /\ PolyMinX(i) <= p[1] /\ p[1] <= PolyMaxX(i)
    /\ PolyMinY(i) <= p[2] /\ p[2] <= PolyMaxY(i)

\* C6: with more than one annotation the first is never taken by a worker,
\* never sent to the classifier and never handed to mask_annotation, while
\* every other one is classified before the join; a lone annotation is
\* classified and, when sensitive, handed to mask_annotation.
C6_SkipFirst ==
    /\ Len(annotations) > 1 =>
          /\ task[1] = "todo" /\ api_calls[1] = 0 /\ 1 \notin RenderedAnns
          /\ ~Classifying /\ pc # "start" =>
                \A i \in 2..Len(annotations) : task[i] = "done"
    /\ Len(annotations) = 1 =>
          /\ ~Classifying /\ pc # "start" => task[1] = "done"
          /\ pc = "done" /\ verdict[1] => 1 \in RenderedAnns

\* C6 witness: a finished run of several annotations whose first one contains
\* an explicit term and carries a region, and in which another was rendered.
C6_Witness ==
    /\ pc = "done"
    /\ Len(annotations) > 1
    /\ ExplicitMatch(Desc(1)) /\ HasRegion(1)
    /\ RenderedAnns # {}
    /\ image # original

\* C7: no pixel is written and mask_annotation is not called until every
\* processed annotation has its classification; the sensitive ones are then
\* rendered in increasing input position, and at the end exactly they have
\* been rendered, once each.
C7_ClassifyAllThenRenderInOrder ==
    /\ (image # original \/ render_log # <<>>) =>
          /\ pc \in {"render", "done"}
          /\ \A i \in Processed : task[i] = "done"
    /\ \A j, k \in DOMAIN render_log :
          j < k => render_log[j].ann < render_log[k].ann
    /\ pc = "done" =>
          /\ RenderedAnns = {i \in Processed : verdict[i]}
          /\ Len(render_log) = Cardinality(RenderedAnns)

\* C7 witness: a finished run that rendered two annotations although the
\* worker of the later one finished first.
C7_Witness ==
    /\ pc = "done"
    /\ Len(render_log) >= 2
    /\ image # original
    /\ \E j, k \in DOMAIN finished :
          /\ j < k /\ finished[j] > finished[k]
          /\ verdict[finished[j]] /\ verdict[finished[k]]

\* C8: after mask_text, every pixel of the inclusive bounding rectangle of a
\* sensitive annotation whose polygon lies inside the image and is not
\* oversized is RGBA(0,0,0,128).
C8_SolidFill ==
    pc = "done" =>
        \A i \in Processed :
            (verdict[i] /\ HasRegion(i) /\ InsideImage(i) /\ ~Oversized(i)) =>
                \A p \in DOMAIN image.pixels :
                    InPolyBox(p, i) => image.pixels[p] = <<0, 0, 0, 128>>

\* C8 witness: such an annotation, with a rectangle more than one pixel wide,
\* has been rendered onto pixels that were white.
C8_Witness ==
    /\ pc = "done"
    /\ \E i \in Processed :
          /\ verdict[i] /\ HasRegion(i) /\ InsideImage(i) /\ ~Oversized(i)
          /\ PolyMaxX(i) > PolyMinX(i)
          /\ \A p \in DOMAIN image.pixels :
                InPolyBox(p, i) => original.pixels[p] = White

\* C9: every pixel mask_text has changed lies inside the bounding rectangle
\* of the polygon of an annotation classified sensitive.
C9_Frame ==
    \A p \in DOMAIN image.pixels :
        image.pixels[p] # original.pixels[p] =>
            \E i \in Processed :
                task[i] = "done" /\ verdict[i] /\ HasRegion(i) /\ InPolyBox(p, i)

\* C10: the rectangle derived from a non-empty polygon satisfies
\* 0 <= min_x <= max_x <= width-1 and 0 <= min_y <= max_y <= height-1.
C10_RectangleInvariant ==
    \A k \in DOMAIN render_log :
        render_log[k].outcome # "empty" =>
            LET r == render_log[k].rect
            IN  /\ 0 <= r.min_x /\ r.min_x <= r.max_x /\ r.max_x <= image.width - 1
                /\ 0 <= r.min_y /\ r.min_y <= r.max_y /\ r.max_y <= image.height - 1

\* the rectangle of annotation i after clamping to the image
ClampedMinX(i) == Max2(PolyMinX(i), 0)
ClampedMaxX(i) == Min2(Max2(PolyMaxX(i), 0), image.width - 1)
ClampedMinY(i) == Max2(PolyMinY(i), 0)
ClampedMaxY(i) == Min2(Max2(PolyMaxY(i), 0), image.height - 1)
\* its width or its height exceeds half of the image's
ClampedOversized(i) ==
    \/ 2 * (ClampedMaxX(i) - ClampedMinX(i)) > image.width
    \/ 2 * (ClampedMaxY(i) - ClampedMinY(i)) > image.height

\* C11: a sensitive annotation whose clamped rectangle is wider than half the
\* image width or taller than half the image height changes no pixel and
\* raises no error: when it is the only annotation processed, the buffer
\* stays as the caller passed it and mask_text returns Ok.
C11_OversizeSkip ==
    \A i \in Processed :
        (Processed = {i} /\ task[i] = "done" /\ verdict[i]
         /\ HasRegion(i) /\ ClampedOversized(i))
            => /\ image = original
               /\ result \in {"none", "Ok"}
               /\ pc = "done" => result = "Ok"

\* C11 witness: a finished run whose only annotation is sensitive and has
\* been handed to mask_annotation, with a clamped rectangle no wider than
\* half the image but taller than half of it, over a white pixel.
C11_Witness ==
    /\ pc = "done" /\ result = "Ok"
    /\ \E i \in Processed :
          /\ Processed = {i} /\ verdict[i] /\ HasRegion(i)
          /\ i \in RenderedAnns
          /\ 2 * (ClampedMaxX(i) - ClampedMinX(i)) <= image.width
          /\ 2 * (ClampedMaxY(i) - ClampedMinY(i)) > image.height
          /\ original.pixels[<<ClampedMinX(i), ClampedMinY(i)>>] = White

\* C14: the count mask_text reports equals the number of annotations whose
\* rectangle was rendered: a sensitive annotation skipped for an absent or
\* empty polygon or for an oversized rectangle is not counted.
C14_CountIsRendered ==
    (pc = "done" /\ result = "Ok") =>
        masked_count =
            Cardinality({i \in Processed :
                            verdict[i] /\ HasRegion(i) /\ ~ClampedOversized(i)})

\* no annotation of the run carries a region
NoRegions == \A i \in DOMAIN annotations : ~HasRegion(i)

\* C12: an annotation whose bounding polygon is absent, or present with no
\* vertex, changes no pixel and mask_text / mask_faces returns Ok, the same
\* for both forms: in a run none of whose annotations carries a region the
\* buffer stays as passed, no error is raised and the run ends with Ok.
C12_SilentSkip ==
    NoRegions =>
        /\ image = original
        /\ result \in {"none", "Ok"}
        /\ pc = "done" => result = "Ok"

\* C12 witness: a finished run that handed over an annotation without a
\* polygon and then one with an empty vertex list, on a buffer that has
\* white pixels, and returned Ok.
C12_Witness ==
    /\ pc = "done" /\ result = "Ok"
    /\ Len(render_log) = 2
    /\ annotations[render_log[1].ann].bounding_poly = NoPoly
    /\ annotations[render_log[2].ann].bounding_poly = Poly(<<>>)
    /\ \E p \in DOMAIN original.pixels : original.pixels[p] = White

\* C13: with an empty annotation sequence, whatever the image and the list
\* of explicit terms, every pixel stays unchanged, nothing is rendered, the
\* call returns Ok and the count it reports is 0.
C13_EmptyInput ==
    annotations = <<>> =>
        /\ image = original
        /\ render_log = <<>>
        /\ masked_count = 0
        /\ result \in {"none", "Ok"}
        /\ pc = "done" => result = "Ok"

\* C13 witness: mask_text has returned Ok for no annotation under a
\* non-empty list of explicit terms, on an image of more than one pixel.
C13_Witness ==
    /\ pc = "done" /\ result = "Ok"
    /\ annotations = <<>>
    /\ Len(additional_masks) = 2
    /\ annotations_to_process = <<>> /\ sensitive_annotations = <<>>
    /\ Cardinality(DOMAIN image.pixels) > 1

\* p lies just outside the bounding rectangle of annotation i
NextToPolyBox(p, i) ==
    /\ ~InPolyBox(p, i)
    /\ PolyMinX(i) - 1 <= p[1] /\ p[1] <= PolyMaxX(i) + 1
    /\ PolyMinY(i) - 1 <= p[2] /\ p[2] <= PolyMaxY(i) + 1

\* C15: after mask_faces, every pixel of the inclusive rectangle of a face
\* whose polygon lies inside the image is RGBA(0,0,0,180), and the pixels
\* just outside the rectangle keep their value.
C15_FaceSolidFill ==
    (pc = "done" /\ result = "Ok") =>
        \A i \in DOMAIN annotations :
            (HasRegion(i) /\ InsideImage(i)) =>
                \A p \in DOMAIN image.pixels :
                    /\ InPolyBox(p, i) => image.pixels[p] = <<0, 0, 0, 180>>
                    /\ NextToPolyBox(p, i) => image.pixels[p] = original.pixels[p]

InClampedBox(p, i) ==
    /\ ClampedMinX(i) <= p[1] /\ p[1] <= ClampedMaxX(i)
    /\ ClampedMinY(i) <= p[2] /\ p[2] <= ClampedMaxY(i)
\* the block of the partition of the inclusive rectangle of annotation i
\* that holds p: blocks of 16 from the near edges, smaller at the far edges
BlockOf(p, i) ==
    LET sx == ClampedMinX(i) + ((p[1] - ClampedMinX(i)) \div 16) * 16
        sy == ClampedMinY(i) + ((p[2] - ClampedMinY(i)) \div 16) * 16
    IN  [start_x |-> sx, start_y |-> sy,
         end_x |-> Min2(sx + 16, ClampedMaxX(i) + 1),
         end_y |-> Min2(sy + 16, ClampedMaxY(i) + 1)]
\* the truncated mean, channel by channel, of the input pixels of a block
BlockMean(b) ==
    [c \in 1..4 |->
        ChannelSum(original, b, b.start_y, c)
            \div ((b.end_x - b.start_x) * (b.end_y - b.start_y))]

\* C16: after mask_faces on one face, the 16-pixel blocks partition the whole
\* inclusive rectangle and every pixel of the rectangle is the truncated mean
\* of the input pixels of the block that holds it.
C16_MosaicCoversRectangle ==
    (/\ pc = "done" /\ result = "Ok"
     /\ Len(annotations) = 1 /\ HasRegion(1)
     /\ ClampedMinX(1) <= ClampedMaxX(1) /\ ClampedMinY(1) <= ClampedMaxY(1)) =>
        \A p \in DOMAIN image.pixels :
            InClampedBox(p, 1) => image.pixels[p] = BlockMean(BlockOf(p, 1))

\* this step hands to the renderer the annotation it was handed just before
SameAsLast ==
    /\ Len(render_log) >= 1
    /\ Len(render_log') = Len(render_log) + 1
    /\ annotations[render_log'[Len(render_log')].ann]
           = annotations[render_log[Len(render_log)].ann]

\* C17: a renderer applied a second time to the same annotation, on the
\* buffer its first application left, changes nothing: the solid fill of
\* mask_annotation and the pixelation of mask_faces are idempotent.
C17_RendererIdempotent == [][SameAsLast => image' = image]_vars

\* C17 witness: a finished run that pixelated the same face twice, over a
\* rectangle of more than one block, and changed the buffer.
C17_Witness ==
    /\ pc = "done" /\ result = "Ok"
    /\ Len(render_log) >= 2
    /\ annotations[render_log[1].ann] = annotations[render_log[2].ann]
    /\ render_log[1].outcome = "mosaic"
    /\ render_log[1].rect.max_x - render_log[1].rect.min_x >= 2 * pixel_size
    /\ image # original

\* C18: mask_text returns an error exactly when the buffer has zero width
\* or zero height: on such a buffer it returns Err (it neither panics nor
\* wraps nor returns Ok), and on every buffer of at least 1x1 it returns Ok.
C18_ErrIffZeroSized ==
    pc = "done" =>
        /\ (image.width = 0 \/ image.height = 0) => result = "Err"
        /\ (image.width >= 1 /\ image.height >= 1) => result = "Ok"

\* the detection service has answered the call with a reply that parses
Answered ==
    /\ process.called
    /\ process.env.key_set /\ process.env.file = "image"
    /\ process.env.vision.kind = "body"
Responses == process.env.vision.responses
\* ... and none of its responses holds a text annotation
AnsweredNoText ==
    Answered /\ \A k \in DOMAIN Responses : Responses[k] = <<>>

C20_MissingKeyFirst ==
    /\ (process.called /\ ~process.env.key_set) =>
          /\ ~process.detected.ok
          /\ "GCP_API_KEY" \in Range(process.detected.error)
          /\ process.detected.effects = <<>>
    /\ \A i \in DOMAIN annotations :
          (Called(i) /\ last_call.reply.kind = "no_key") =>
              /\ ~analyze_text_sensitivity(last_call.reply).ok
              /\ "GCP_API_KEY" \in Range(last_call.error)
              /\ last_call.requests = 0

\* C20 witness: detect_text_with_api, called on its own with the variable
\* unset and a path that does not exist, has returned its error.
C20_Witness ==
    /\ process.entry = "detect_text_with_api"
    /\ process.called /\ pc = "end"
    /\ ~process.env.key_set /\ process.env.file = "missing"
    /\ process.outcome = "Err"

\* the decision of is_sensitive_text reaches the classifier: the text holds
\* no explicit term, has at least 3 characters and is not key-shaped
ReachesClassifier(text) ==
    /\ ~ExplicitMatch(text)
    /\ CharLen(text) >= 3
    /\ ~(criteria.api_keys /\ CharLen(text) > 20 /\ KeyShaped(text))

\* C21: the classifier is invoked for an annotation exactly when the
\* annotation is processed, its text holds no explicit term, has at least 3
\* characters and is not key-shaped, and it is invoked at most once: no
\* annotation ever has more than one call, none has a call unless these
\* conditions hold, and after the join every annotation they hold for has one.
C21_ClassifierCalledIff ==
    \A i \in DOMAIN annotations :
        /\ api_calls[i] <= 1
        /\ api_calls[i] = 1 => (i \in Processed /\ ReachesClassifier(Desc(i)))
        /\ (pc \in {"render", "done"} /\ i \in Processed
            /\ ReachesClassifier(Desc(i))) => api_calls[i] = 1

\* C22: on an image of at least 1x1, whatever the vertices of a non-empty
\* polygon, the subtractions and sums of mask_faces stay within u32: no run
\* panics, every rectangle handed to the block loops has min_x <= max_x and
\* min_y <= max_y, and mask_faces returns Ok.
C22_FacesNoUnderflow ==
    (image.width >= 1 /\ image.height >= 1) =>
        /\ result # "panic"
        /\ \A k \in DOMAIN render_log :
              render_log[k].outcome # "empty" =>
                  /\ render_log[k].rect.min_x <= render_log[k].rect.max_x
                  /\ render_log[k].rect.min_y <= render_log[k].rect.max_y
        /\ pc = "done" => result = "Ok"


\* an item of the comma-separated list s that is empty or whitespace only
BlankItem(s) ==
    \E i \in 0..Len(s), j \in 1..(Len(s) + 1) :
        /\ i < j
        /\ i = 0 \/ s[i] = ","
        /\ j = Len(s) + 1 \/ s[j] = ","
        /\ \A k \in (i + 1)..(j - 1) : s[k] \in Whitespace

EmptyTerm == <<>> \in Range(additional_masks)

\* C23: process_image turns a mask_texts argument with an empty or blank
\* item (the empty argument, a trailing or doubled comma, a whitespace-only
\* item) into a list of explicit terms that contains the empty string; and
\* while the explicit terms contain the empty string, is_sensitive_text is
\* true for every text whatever the classifier would answer, texts shorter
\* than 3 characters included, the classifier is never called, and every
\* processed annotation of a finished mask_text run was handed to the renderer
C23_EmptyTermMasksAll ==
    /\ (process.entry = "process_image" /\ pc \notin {"open"}
        /\ process.env.file = "image" /\ process.mask_texts.present
        /\ BlankItem(process.mask_texts.text)) => EmptyTerm
    /\ EmptyTerm =>
          /\ \A i \in DOMAIN annotations :
                /\ api_calls[i] = 0
                /\ task[i] = "done" => verdict[i]
                /\ \A r \in Replies :
                      is_sensitive_text(Desc(i), criteria, additional_masks, r)
          /\ last_call = NoCall
          /\ (pc \in {"done", "end"} /\ result = "Ok") =>
                /\ Processed \subseteq RenderedAnns
                /\ masked_count = Cardinality(Processed)

C23_Witness ==
    /\ process.entry = "process_image"
    /\ pc = "end"
    /\ process.saved
    /\ process.mask_texts.text # <<>>
    /\ EmptyTerm
    /\ \E i \in Processed :
          /\ CharLen(Desc(i)) < 3
          /\ i \in RenderedAnns
    /\ image # original
    /\ \A i \in DOMAIN annotations : api_calls[i] = 0

====
